---- MODULE Spec2Model ----
(***************************************************************************)
(* Robot arm controller: the Svelte pages (src/src/routes/+page.svelte,    *)
(* src/src/routes/index.svelte, src/unnamed/part_000, src/unnamed/part_001)*)
(* driving the Tauri commands initialize_serial, send_robot_commands,      *)
(* read_robot_state and list_serial_ports.  The pages are modelled from    *)
(* their source; the commands' implementation (the serial back end) is not *)
(* among the sources and is modelled from the specification's Connection   *)
(* Manager (4.2) and Frame Codec (4.1).                                    *)
(*                                                                         *)
(* One joint, the speed, one digital output and one digital input stand    *)
(* for the thirteen fields of the state record: every page copies and      *)
(* sends the record as a whole, so the fields of one kind behave alike.    *)
(***************************************************************************)
EXTENDS Integers, Sequences, FiniteSets, Bags

\* ------------------------------------------------------------------ bounds

\* Number of invoke() calls that may be awaiting their promise at once.
MaxInFlight == 2
\* Number of changes the operator makes to the sliders and checkboxes.
MaxEdits == 2
\* The count of command frames dispatched since the last poll tick saturates here.
WindowCap == 2

\* ------------------------------------------------------- program constants

JointMin == 0
JointMax == 180
SpeedMin == 0
SpeedMax == 100
JointDefault == 90
SpeedDefault == 50
\* Consecutive failures after which the specification's engine gives up (4.3).
MaxRetries == 3

\* The page variants of the repository.
Pages == {"+page", "index", "part_001"}

\* Raw positions the operator may try to give a joint slider / the speed slider.
JointInputs == {-5, 45, 200}
SpeedInputs == {120}

\* ----------------------------------------------------------------- helpers

Min(a, b) == IF a < b THEN a ELSE b
Max(a, b) == IF a > b THEN a ELSE b

\* <input type="range" min max>: the control holds its value within [lo, hi].
RangeValueUnclamped(raw, lo, hi) == raw
RangeValue(raw, lo, hi) == Max(lo, Min(hi, raw))

\* let localState = {...}: the record every page starts from.
DefaultState ==
    [joint_1 |-> JointDefault, robotSpeed |-> SpeedDefault,
     digital_output_1 |-> FALSE, digital_input_1 |-> FALSE]

getJointState(state) == [joint_1 |-> state.joint_1]

getDigitalPinState(state) ==
    [digital_input_1 |-> state.digital_input_1,
     digital_output_1 |-> state.digital_output_1]

\* Pages whose joint sliders and output checkboxes are bound to the derived
\* copies jointState / digitalPinState instead of localState.
BindsNone(p) == FALSE
BindsDerived(p) == p \in {"+page", "index"}
\* Pages with the port selector and the Initialize button.
HasPortSelector(p) == p = "+page"

\* ------------------------------------------------------------- frame codec

Bit(b) == IF b THEN 1 ELSE 0

\* encode(state) -> bytes: the fields in their fixed wire order.
encode(state) ==
    <<state.joint_1, state.robotSpeed,
      Bit(state.digital_output_1), Bit(state.digital_input_1)>>

FrameLen == 4

\* decode accepts a frame only when it is complete and every field is in its domain.
WellFormed(frame) ==
    /\ Len(frame) = FrameLen
    /\ frame[1] \in JointMin..JointMax
    /\ frame[2] \in SpeedMin..SpeedMax
    /\ frame[3] \in {0, 1}
    /\ frame[4] \in {0, 1}

decode(frame) ==
    [joint_1 |-> frame[1], robotSpeed |-> frame[2],
     digital_output_1 |-> (frame[3] = 1), digital_input_1 |-> (frame[4] = 1)]

\* A byte that is no valid joint angle.
CorruptByte == 255

\* What a state request may bring back from the device: the report of the
\* hardware state, a truncated report, or one with a corrupted field.
ReplyFrames(h) ==
    {encode(h),
     SubSeq(encode(h), 1, FrameLen - 1),
     [encode(h) EXCEPT ![1] = CorruptByte]}

\* The device acts on a command: joints, speed and outputs are taken from the
\* command; the digital inputs are the hardware's own.
ApplyCommand(h, cmd) ==
    [h EXCEPT !.joint_1 = cmd.joint_1,
              !.robotSpeed = cmd.robotSpeed,
              !.digital_output_1 = cmd.digital_output_1]

\* The statusMessage store holds a text and, where the page appends it, the
\* error the promise was rejected with.
Message(text, error) == <<text, error>>
NoMessage == Message("", "")

\* ------------------------------------------------------------------- state

VARIABLES
    page,            \* which page variant is running
    mountPc,         \* onMount: "new", "listing" (awaiting list_serial_ports), "mounted"
    localState,      \* let localState
    jointState,      \* let jointState
    digitalPinState, \* let digitalPinState
    robotState,      \* the robotState store
    availablePorts,  \* the availablePorts store
    selectedPort,    \* let selectedPort
    statusMessage,   \* the statusMessage store
    calls,           \* the bag of invoke() calls whose promise is not yet settled
    conn,            \* back end: lifecycle state of the connection
    hw,              \* the robot itself
    failures,        \* consecutive failed exchanges on the connection
    framesInWindow,  \* command frames dispatched since the last poll tick
    settled,         \* whether the operator has stopped, and the target then held
    edits,           \* changes the operator has made to the controls
    observe          \* which of failures / framesInWindow / settled is being kept

vars ==
    <<page, mountPc, localState, jointState, digitalPinState, robotState,
      availablePorts, selectedPort, statusMessage, calls, conn, hw, failures,
      framesInWindow, settled, edits, observe>>

\* What no step of the page or the back end changes: the page variant and the
\* choice of history variable.
fixedVars == <<page, observe>>

frontVars ==
    <<localState, jointState, digitalPinState, robotState, availablePorts,
      selectedPort, statusMessage>>

\* An invoke() call awaiting its promise: the command, its argument, and how
\* far the back end has got with it.
NewCall(kind, arg) == [kind |-> kind, arg |-> arg, status |-> "pending"]

One(c) == SetToBag({c})
HasFree == BagCardinality(calls) < MaxInFlight

\* invoke(kind, arg): the call is handed to the back end.
invoke(kind, arg) == calls (+) One(NewCall(kind, arg))

\* What the operator's controls hold: the state the sliders and checkboxes are
\* bound to.
Target ==
    IF BindsDerived(page)
    THEN [joint_1 |-> jointState.joint_1,
          robotSpeed |-> localState.robotSpeed,
          digital_output_1 |-> digitalPinState.digital_output_1]
    ELSE [joint_1 |-> localState.joint_1,
          robotSpeed |-> localState.robotSpeed,
          digital_output_1 |-> localState.digital_output_1]

CommandFields(s) ==
    [joint_1 |-> s.joint_1, robotSpeed |-> s.robotSpeed,
     digital_output_1 |-> s.digital_output_1]

InitObserving(o) ==
    /\ observe = o
    /\ edits = 0
    /\ page \in Pages
    /\ mountPc = "new"
    /\ localState = DefaultState
    /\ jointState = getJointState(DefaultState)
    /\ digitalPinState = getDigitalPinState(DefaultState)
    /\ robotState = DefaultState
    /\ availablePorts = <<>>
    /\ selectedPort = ""
    /\ statusMessage = NoMessage
    /\ calls = EmptyBag
    /\ conn = "Closed"
    /\ hw = DefaultState
    /\ failures = 0
    /\ framesInWindow = 0
    /\ settled = [done |-> FALSE, target |-> CommandFields(DefaultState)]

Init == InitObserving("none")

\* ---------------------------------------------------------------- the page

\* The operator can act once the page is shown, until they stop for good.
OperatorActive == mountPc # "new" /\ ~settled.done

\* updateRobot: invoke('send_robot_commands', { robotState: localState }).
updateRobot(ls) ==
    /\ calls' = invoke("send_robot_commands", ls)
    /\ framesInWindow' =
           IF observe = "window" THEN Min(framesInWindow + 1, WindowCap)
           ELSE framesInWindow

\* fetchRobotState, up to its await: invoke('read_robot_state').
fetchRobotState == invoke("read_robot_state", DefaultState)

\* A plausible slip: only the store is set, the page's own copies are kept.
FetchResolvedStoreOnly(state) ==
    [robotState |-> state,
     localState |-> localState,
     jointState |-> jointState,
     digitalPinState |-> digitalPinState]

\* fetchRobotState after a resolved read: the store, localState and the derived
\* copies are all replaced by the returned state.
FetchResolved(state) ==
    [robotState |-> state,
     localState |-> state,
     jointState |-> IF page = "part_001" THEN jointState ELSE getJointState(state),
     digitalPinState |->
         IF page = "part_001" THEN digitalPinState ELSE getDigitalPinState(state)]

\* A plausible slip: the fields received before the failure are merged.
FetchRejectedMerging(partial) ==
    [robotState |-> [robotState EXCEPT !.joint_1 = partial.joint_1],
     localState |-> [localState EXCEPT !.joint_1 = partial.joint_1],
     jointState |-> jointState,
     digitalPinState |-> digitalPinState]

\* fetchRobotState after a rejected read: the catch branch touches no state,
\* whatever part of the frame had been received.
FetchRejected(partial) ==
    [robotState |-> robotState,
     localState |-> localState,
     jointState |-> jointState,
     digitalPinState |-> digitalPinState]

\* Joint slider, on:input: the bound value changes, then updateRobot runs.
InputJoint(raw) ==
    /\ OperatorActive
    /\ HasFree
    /\ edits < MaxEdits
    /\ edits' = edits + 1
    /\ LET v == RangeValue(raw, JointMin, JointMax) IN
        /\ v # Target.joint_1
        /\ IF BindsDerived(page)
           THEN /\ jointState' = [jointState EXCEPT !.joint_1 = v]
                /\ localState' = localState
           ELSE /\ localState' = [localState EXCEPT !.joint_1 = v]
                /\ jointState' = jointState
    /\ updateRobot(localState')
    /\ UNCHANGED <<fixedVars, mountPc, digitalPinState, robotState, availablePorts,
                   selectedPort, statusMessage, conn, hw, failures, settled>>

\* Speed slider, on:input: bound to localState.robotSpeed on every page.
InputSpeed(raw) ==
    /\ OperatorActive
    /\ HasFree
    /\ edits < MaxEdits
    /\ edits' = edits + 1
    /\ LET v == RangeValue(raw, SpeedMin, SpeedMax) IN
        /\ v # localState.robotSpeed
        /\ localState' = [localState EXCEPT !.robotSpeed = v]
    /\ updateRobot(localState')
    /\ UNCHANGED <<fixedVars, mountPc, jointState, digitalPinState, robotState,
                   availablePorts, selectedPort, statusMessage, conn, hw,
                   failures, settled>>

\* Output checkbox, on:change.
ChangeOutput ==
    /\ OperatorActive
    /\ HasFree
    /\ edits < MaxEdits
    /\ edits' = edits + 1
    /\ IF BindsDerived(page)
       THEN /\ digitalPinState' =
                   [digitalPinState EXCEPT
                       !.digital_output_1 = ~digitalPinState.digital_output_1]
            /\ localState' = localState
       ELSE /\ localState' =
                   [localState EXCEPT
                       !.digital_output_1 = ~localState.digital_output_1]
            /\ digitalPinState' = digitalPinState
    /\ updateRobot(localState')
    /\ UNCHANGED <<fixedVars, mountPc, jointState, robotState, availablePorts,
                   selectedPort, statusMessage, conn, hw, failures, settled>>

\* A plausible slip: the poll is skipped while the connection is not Open.
TickWhenOpen ==
    /\ mountPc = "mounted"
    /\ conn = "Open"
    /\ HasFree
    /\ calls' = fetchRobotState
    /\ framesInWindow' = 0
    /\ UNCHANGED <<fixedVars, mountPc, frontVars, conn, hw, failures, settled, edits>>

\* setInterval(fetchRobotState, ...): one firing of the poll timer.
Tick ==
    /\ mountPc = "mounted"
    /\ HasFree
    /\ calls' = fetchRobotState
    /\ framesInWindow' = 0
    /\ UNCHANGED <<fixedVars, mountPc, frontVars, conn, hw, failures, settled, edits>>

\* onMount, up to its first await.  +page and part_000 list the ports; index and
\* part_001 initialize the hard-coded port.
OnMount ==
    /\ mountPc = "new"
    /\ IF HasPortSelector(page)
       THEN /\ mountPc' = "listing"
            /\ calls' = calls
       ELSE /\ mountPc' = "initializing"
            /\ calls' = invoke("initialize_serial", DefaultState)
    /\ UNCHANGED <<fixedVars, frontVars, conn, hw, failures, framesInWindow, settled, edits>>

\* The ports list_serial_ports may report.
PortLists == {<<>>, <<"COM-sim", "COM-aux">>}

\* listPorts settles, then onMount subscribes (selecting the first port when
\* none is selected) and starts the poll timer.
ListPortsResolved(ok, ports) ==
    /\ mountPc = "listing"
    /\ mountPc' = "mounted"
    /\ IF ok
       THEN /\ availablePorts' = ports
            /\ statusMessage' = statusMessage
       ELSE /\ availablePorts' = availablePorts
            /\ statusMessage' = Message("Failed to list serial ports.", "")
    /\ selectedPort' =
           IF Len(availablePorts') > 0 /\ selectedPort = ""
           THEN availablePorts'[1] ELSE selectedPort
    /\ UNCHANGED <<fixedVars, localState, jointState, digitalPinState, robotState,
                   calls, conn, hw, failures, framesInWindow, settled, edits>>

\* Initialize button, on:click: initializePort up to its first await.
ClickInitialize ==
    /\ HasPortSelector(page)
    /\ OperatorActive
    /\ IF selectedPort = ""
       THEN /\ statusMessage' = Message("Please select a serial port.", "")
            /\ calls' = calls
       ELSE /\ HasFree
            /\ calls' = invoke("initialize_serial", DefaultState)
            /\ statusMessage' = statusMessage
    /\ UNCHANGED <<fixedVars, mountPc, localState, jointState, digitalPinState,
                   robotState, availablePorts, selectedPort, conn, hw, failures,
                   framesInWindow, settled, edits>>

\* <select bind:value={selectedPort}>: the operator picks a listed port.
SelectPort(k) ==
    /\ HasPortSelector(page)
    /\ OperatorActive
    /\ k \in 1..Len(availablePorts)
    /\ selectedPort # availablePorts[k]
    /\ selectedPort' = availablePorts[k]
    /\ UNCHANGED <<fixedVars, mountPc, localState, jointState, digitalPinState,
                   robotState, availablePorts, statusMessage, calls, conn, hw,
                   failures, framesInWindow, settled, edits>>

\* fetchRobotState, after its await: the promise of call i resolved with
\* `state`, or was rejected with `error` (`state` is then what had been received).
ReadSettled(c, ok, state, error) ==
    /\ LET r == IF ok THEN FetchResolved(state) ELSE FetchRejected(state)
       IN  /\ robotState' = r.robotState
           /\ localState' = r.localState
           /\ jointState' = r.jointState
           /\ digitalPinState' = r.digitalPinState
    /\ statusMessage' =
           IF ~ok /\ HasPortSelector(page)
           THEN Message("Failed to read robot state.", error)
           ELSE statusMessage
    /\ calls' = calls (-) One(c)
    /\ UNCHANGED <<fixedVars, mountPc, availablePorts, selectedPort, framesInWindow,
                   settled, edits>>

\* updateRobot, after its await.
SendSettled(c, ok) ==
    /\ statusMessage' =
           IF ~HasPortSelector(page) THEN statusMessage
           ELSE IF ok THEN Message("Commands sent successfully.", "")
           ELSE Message("Failed to send commands.", "")
    /\ calls' = calls (-) One(c)
    /\ UNCHANGED <<fixedVars, mountPc, localState, jointState, digitalPinState,
                   robotState, availablePorts, selectedPort, framesInWindow,
                   settled, edits>>

\* A plausible slip: fetchRobotState is called after the try / catch, so also
\* when initialize_serial was rejected.
InitializeSettledAlwaysReading(c, ok, error) ==
    /\ IF HasPortSelector(page)
       THEN /\ mountPc' = mountPc
            /\ statusMessage' =
                   IF ok THEN Message("Serial port initialized.", "")
                   ELSE Message("Failed to initialize serial port.", error)
            /\ calls' = (calls (-) One(c)) (+) One(
                            NewCall("read_robot_state", DefaultState))
       ELSE /\ mountPc' = "mounted"
            /\ statusMessage' = statusMessage
            /\ calls' = calls (-) One(c)
    /\ UNCHANGED <<localState, jointState, digitalPinState, robotState,
                   availablePorts, selectedPort, fixedVars, framesInWindow, settled, edits>>

\* After the await of initialize_serial.  initializePort (+page, part_000)
\* reads the state at once when the port was initialized; onMount of index and
\* part_001 starts the poll timer whatever the outcome.
InitializeSettled(c, ok, error) ==
    /\ IF HasPortSelector(page)
       THEN /\ mountPc' = mountPc
            /\ IF ok
               THEN /\ statusMessage' = Message("Serial port initialized.", "")
                    /\ calls' = (calls (-) One(c)) (+) One(
                                    NewCall("read_robot_state", DefaultState))
               ELSE /\ statusMessage' =
                           Message("Failed to initialize serial port.", error)
                    /\ calls' = calls (-) One(c)
       ELSE /\ mountPc' = "mounted"
            /\ statusMessage' = statusMessage
            /\ calls' = calls (-) One(c)
    /\ UNCHANGED <<localState, jointState, digitalPinState, robotState,
                   availablePorts, selectedPort, fixedVars, framesInWindow, settled, edits>>

\* The continuation of call i, by the command it invoked.
Rejected(c, error, partial) ==
    IF c.kind = "read_robot_state"
    THEN ReadSettled(c, FALSE, partial, error)
    ELSE SendSettled(c, FALSE)

\* ------------------------------------------------------------ the back end
\* Each step of the back end that settles a call also runs the page's
\* continuation of that call.

\* connect admits a new attempt only when none is under way or established.
ConnectAdmissionAlways(c) == ""
ConnectAdmission(c) ==
    IF c = "Opening" THEN "AlreadyConnecting"
    ELSE IF c = "Open" THEN "AlreadyConnected"
    ELSE ""

\* send / receive are valid only in Open.
IoAdmissionAlways(c) == ""
IoAdmission(c) == IF c = "Open" THEN "" ELSE "NotConnected"

\* The consecutive-failure count after one more failed exchange.
FailedExchange ==
    IF observe = "failures" THEN Min(failures + 1, MaxRetries) ELSE failures

\* Once the operator has stopped, every exchange succeeds.
MayFail == ~settled.done

\* initialize_serial reaches connect(portId, baudRate).
BackendConnectStart(c) ==
    /\ c.kind = "initialize_serial"
    /\ c.status = "pending"
    /\ IF ConnectAdmission(conn) = ""
       THEN /\ conn' = "Opening"
            /\ calls' = (calls (-) One(c)) (+) One([c EXCEPT !.status = "opening"])
            /\ UNCHANGED <<fixedVars, mountPc, frontVars, framesInWindow, settled, edits>>
       ELSE /\ conn' = conn
            /\ InitializeSettled(c, FALSE, ConnectAdmission(conn))
    /\ UNCHANGED <<hw, failures>>

\* The transport opens, or fails to.
BackendConnectFinish(c, ok) ==
    /\ c.kind = "initialize_serial"
    /\ c.status = "opening"
    /\ ok \/ MayFail
    /\ conn' = IF ok THEN "Open" ELSE "Faulted"
    /\ failures' = IF ok THEN 0 ELSE failures
    /\ InitializeSettled(c, ok, "ConnectError")
    /\ hw' = hw

IsExchange(c) ==
    /\ c.kind \in {"send_robot_commands", "read_robot_state"}
    /\ c.status = "pending"

\* send / receive outside Open.
BackendNotConnected(c) ==
    /\ IsExchange(c)
    /\ IoAdmission(conn) # ""
    /\ Rejected(c, IoAdmission(conn), localState)
    /\ UNCHANGED <<conn, hw, failures>>

\* send_robot_commands: the frame is written, the device acts on it and
\* acknowledges.
BackendSend(c) ==
    /\ c.kind = "send_robot_commands"
    /\ c.status = "pending"
    /\ IoAdmission(conn) = ""
    /\ hw' = ApplyCommand(hw, decode(encode(c.arg)))
    /\ failures' = 0
    /\ SendSettled(c, TRUE)
    /\ conn' = conn

\* The fields of a frame as far as they were received.
PartialDecode(frame) ==
    [joint_1 |-> frame[1], robotSpeed |-> frame[2],
     digital_output_1 |-> (frame[3] = 1),
     digital_input_1 |-> (Len(frame) >= FrameLen /\ frame[FrameLen] = 1)]

\* read_robot_state: the device's report is received and decoded.
BackendRead(c, frame) ==
    /\ c.kind = "read_robot_state"
    /\ c.status = "pending"
    /\ IoAdmission(conn) = ""
    /\ frame \in ReplyFrames(hw)
    /\ WellFormed(frame) \/ MayFail
    /\ IF WellFormed(frame)
       THEN /\ failures' = 0
            /\ ReadSettled(c, TRUE, decode(frame), "")
       ELSE /\ failures' = FailedExchange
            /\ ReadSettled(c, FALSE, PartialDecode(frame), "DecodeError")
    /\ UNCHANGED <<conn, hw>>

\* No answer within the time allowed.
BackendTimeout(c) ==
    /\ IsExchange(c)
    /\ IoAdmission(conn) = ""
    /\ MayFail
    /\ failures' = FailedExchange
    /\ Rejected(c, "Timeout", localState)
    /\ UNCHANGED <<conn, hw>>

\* Health check: an I/O error during send / receive faults the connection.
BackendIoError(c) ==
    /\ IsExchange(c)
    /\ IoAdmission(conn) = ""
    /\ MayFail
    /\ conn' = "Faulted"
    /\ Rejected(c, "IoError", localState)
    /\ UNCHANGED <<hw, failures>>

\* ---------------------------------------------------------- the environment

\* A digital input of the robot changes.
HardwareInput ==
    /\ hw' = [hw EXCEPT !.digital_input_1 = ~hw.digital_input_1]
    /\ UNCHANGED <<fixedVars, mountPc, frontVars, calls, conn, failures,
                   framesInWindow, settled, edits>>

\* The operator makes no further change; the connection is Open.
OperatorStops ==
    /\ observe = "settle"
    /\ OperatorActive
    /\ mountPc = "mounted"
    /\ conn = "Open"
    /\ settled' = [done |-> TRUE, target |-> Target]
    /\ UNCHANGED <<fixedVars, mountPc, frontVars, calls, conn, hw, failures,
                   framesInWindow, edits>>

Next ==
    \/ OnMount
    \/ \E ok \in BOOLEAN, ports \in PortLists : ListPortsResolved(ok, ports)
    \/ \E k \in 1..Len(availablePorts) : SelectPort(k)
    \/ ClickInitialize
    \/ \E raw \in JointInputs : InputJoint(raw)
    \/ \E raw \in SpeedInputs : InputSpeed(raw)
    \/ ChangeOutput
    \/ Tick
    \/ \E c \in BagToSet(calls) : BackendConnectStart(c)
    \/ \E c \in BagToSet(calls), ok \in BOOLEAN : BackendConnectFinish(c, ok)
    \/ \E c \in BagToSet(calls) : BackendNotConnected(c)
    \/ \E c \in BagToSet(calls) : BackendSend(c)
    \/ \E c \in BagToSet(calls), frame \in ReplyFrames(hw) : BackendRead(c, frame)
    \/ \E c \in BagToSet(calls) : BackendTimeout(c)
    \/ \E c \in BagToSet(calls) : BackendIoError(c)
    \/ HardwareInput

Spec == Init /\ [][Next]_vars

CallKinds == {"initialize_serial", "send_robot_commands", "read_robot_state"}

\* Any step of the back end on call c.
BackendStep(c) ==
    \/ BackendConnectStart(c)
    \/ \E ok \in BOOLEAN : BackendConnectFinish(c, ok)
    \/ BackendNotConnected(c)
    \/ BackendSend(c)
    \/ \E frame \in ReplyFrames(hw) : BackendRead(c, frame)
    \/ BackendTimeout(c)
    \/ BackendIoError(c)

\* The same program with the commands of each poll window counted.
SpecWindow == InitObserving("window") /\ [][Next]_vars

\* The same program with the consecutive failed exchanges counted.
SpecFailures == InitObserving("failures") /\ [][Next]_vars

\* The same program with an operator who may stop for good, under the
\* scheduling the runtime gives: the back end answers the calls of every
\* command, onMount runs, and the timer fires whatever calls are pending (it
\* is only the bound on the pending calls that can hold a firing back, hence
\* the strong fairness).
NextSettling == Next \/ OperatorStops

FairSpec ==
    /\ InitObserving("settle")
    /\ [][NextSettling]_vars
    /\ WF_vars(OnMount)
    /\ WF_vars(\E ok \in BOOLEAN, ports \in PortLists : ListPortsResolved(ok, ports))
    /\ SF_vars(Tick)
    /\ \A kind \in CallKinds :
           WF_vars(\E c \in BagToSet(calls) : c.kind = kind /\ BackendStep(c))

\* ------------------------------------------------------------------ claims

ExchangeKinds == {"send_robot_commands", "read_robot_state"}
InitializeCall == NewCall("initialize_serial", DefaultState)
OpeningCall == [InitializeCall EXCEPT !.status = "opening"]

\* Calls of send_robot_commands / read_robot_state issued and not yet completed.
ExchangesInFlight ==
    BagCardinality(calls) - CopiesIn(InitializeCall, calls)
        - CopiesIn(OpeningCall, calls)

\* This step completes call c and issues nothing.
Leaves(c) == calls' = calls (-) One(c)

\* This step is a change of the operator's controls.
OperatorEdit ==
    \/ \E raw \in JointInputs : InputJoint(raw)
    \/ \E raw \in SpeedInputs : InputSpeed(raw)
    \/ ChangeOutput

PageStateKept == UNCHANGED <<localState, jointState, digitalPinState, robotState>>

\* C1: at most one command or poll operation is in flight on the connection at
\* any moment.
C1_OneExchangeInFlight == conn = "Open" => ExchangesInFlight <= 1

\* C2: within one tick window exactly one command frame is sent, however many
\* target changes the operator made in it (checked with the frames of the
\* window counted, SpecWindow).
C2_OneFramePerWindow ==
    (conn = "Open" /\ mountPc = "mounted") => framesInWindow <= 1

\* C3: on an Open connection, when the operator sets joint_1 to 45 and the
\* other target fields equal current, the command dispatched encodes
\* joint_1 = 45 with every other field as in current.
C3_CommandEncodesTarget ==
    [][\A c \in BagToSet(calls') :
           ( /\ c.kind = "send_robot_commands"
             /\ calls' = calls (+) One(c)
             /\ conn = "Open"
             /\ Target.joint_1 # 45
             /\ Target' = [CommandFields(robotState) EXCEPT !.joint_1 = 45] )
           => CommandFields(c.arg) = [CommandFields(robotState) EXCEPT !.joint_1 = 45]
      ]_vars

\* C4: once the operator has stopped changing the target and every exchange on
\* the Open connection succeeds, the hardware state and current eventually
\* equal the operator's latest target in joint, speed and output fields, and
\* stay equal (checked under FairSpec).
C4_ConvergesToLatestIntent ==
    <>[](settled.done =>
            /\ CommandFields(hw) = settled.target
            /\ CommandFields(robotState) = settled.target)

\* C5: after MaxRetries consecutive timeouts the connection is Faulted and
\* LinkLost is reported on the status stream (checked with the consecutive
\* failures counted, SpecFailures).
C5_FaultedAfterRetries ==
    failures >= MaxRetries =>
        /\ conn = "Faulted"
        /\ statusMessage = Message("LinkLost", "")

\* C6: the target is changed only by the operator's own actions, never by a
\* poll result or any other step; current is changed only by a read that was
\* decoded successfully.
C6_SingleWriter ==
    [][ /\ Target' # Target => OperatorEdit
        /\ robotState' # robotState =>
               \E c \in BagToSet(calls) :
                   /\ c.kind = "read_robot_state"
                   /\ Leaves(c)
                   /\ robotState' = decode(encode(hw))
      ]_vars

\* C7: while the connection is not Open, nothing a send or receive attempt
\* does reaches the robot, and the attempt fails (NotConnected): the page's
\* state is as before and the pages that show a status show the failure.
C7_NotOpenNothingSent ==
    [][conn # "Open" =>
          /\ CommandFields(hw') = CommandFields(hw)
          /\ \A c \in BagToSet(calls) :
                 (c.kind \in ExchangeKinds /\ Leaves(c)) =>
                     /\ PageStateKept
                     /\ HasPortSelector(page) =>
                            statusMessage' =
                                IF c.kind = "read_robot_state"
                                THEN Message("Failed to read robot state.", "NotConnected")
                                ELSE Message("Failed to send commands.", "")
      ]_vars

C7_Witness ==
    /\ conn # "Open"
    /\ statusMessage = Message("Failed to read robot state.", "NotConnected")

\* C8: at most one connect attempt is under way; a connect made while the
\* connection is Opening or Open fails at once with AlreadyConnecting or
\* AlreadyConnected, opens nothing and leaves the connection state unchanged.
C8_OneConnectAttempt ==
    [][ /\ CopiesIn(OpeningCall, calls) <= 1
        /\ (conn = "Opening") <=> (CopiesIn(OpeningCall, calls) = 1)
        /\ ( /\ conn \in {"Opening", "Open"}
             /\ CopiesIn(InitializeCall, calls') < CopiesIn(InitializeCall, calls) )
           => /\ conn' = conn
              /\ Leaves(InitializeCall)
              /\ HasPortSelector(page) =>
                     statusMessage' =
                         Message("Failed to initialize serial port.",
                                 IF conn = "Opening" THEN "AlreadyConnecting"
                                 ELSE "AlreadyConnected")
      ]_vars

C8_Witness ==
    /\ conn = "Opening"
    /\ statusMessage = Message("Failed to initialize serial port.", "AlreadyConnecting")

InDomain(s) ==
    /\ s.joint_1 \in JointMin..JointMax
    /\ s.robotSpeed \in SpeedMin..SpeedMax

\* The value a joint angle is to be stored as.
StoredJoint(raw) == IF raw < 0 THEN 0 ELSE IF raw > 180 THEN 180 ELSE raw

\* C9: every joint angle held in target and in current is in [0,180] and every
\* speed in [0,100]; a joint angle set to -5 or to 200 is stored as 0 or 180.
C9_DomainInvariant ==
    [][ /\ InDomain(Target) /\ InDomain(localState) /\ InDomain(robotState)
        /\ InDomain(Target') /\ InDomain(localState') /\ InDomain(robotState')
        /\ \A raw \in JointInputs :
               InputJoint(raw) => Target'.joint_1 = StoredJoint(raw)
      ]_vars

C9_Witness ==
    /\ Target.joint_1 = JointMax
    /\ robotState.joint_1 = JointMin

\* This step is a read of call c that fails: not connected, timed out, an I/O
\* error, or a reply that does not decode.
FailedRead(c) ==
    /\ c.kind = "read_robot_state"
    /\ \/ BackendNotConnected(c)
       \/ BackendTimeout(c)
       \/ BackendIoError(c)
       \/ \E frame \in ReplyFrames(hw) : ~WellFormed(frame) /\ BackendRead(c, frame)

\* C10: a failed read leaves current and target exactly as they were; a read
\* either replaces them wholly by the reported state or changes nothing.
C10_FailedReadKeepsState ==
    [][\A c \in BagToSet(calls) :
           /\ FailedRead(c) => PageStateKept
           /\ (c.kind = "read_robot_state" /\ Leaves(c)) =>
                  \/ PageStateKept
                  \/ /\ conn = "Open"
                     /\ robotState' = hw
                     /\ localState' = hw
                     /\ Target' = CommandFields(hw)
      ]_vars

C10_Witness ==
    /\ statusMessage = Message("Failed to read robot state.", "DecodeError")
    /\ conn = "Open"
    /\ CommandFields(hw) # CommandFields(robotState)

\* This step brings the connection to Closed and leaves no command awaiting
\* its acknowledgement: what a disconnect does.
Disconnects ==
    /\ conn' = "Closed"
    /\ \A c \in BagToSet(calls') : c.kind # "send_robot_commands"

\* A command is awaiting its acknowledgement on the Open connection.
AwaitingAck ==
    /\ conn = "Open"
    /\ \E c \in BagToSet(calls) : c.kind = "send_robot_commands"

\* C11: the connection can be disconnected in any state: also while a command
\* awaits its acknowledgement there is a step that drops the command and
\* brings the connection to Closed.
C11_DisconnectAnyTime == AwaitingAck => ENABLED (Next /\ Disconnects)

\* This step is the failure of command c on the Open connection: a command
\* the robot has yet to act on gets no acknowledgement in time.
CommandFails(c) ==
    /\ c.kind = "send_robot_commands"
    /\ conn = "Open"
    /\ CommandFields(c.arg) # CommandFields(hw)
    /\ BackendTimeout(c)

\* C12: a command that timed out is retransmitted: the same frame is in
\* flight again after the failure, whatever the operator's target has become.
C12_RetriesSameFrame ==
    [][\A c \in BagToSet(calls) :
           CommandFails(c) => CopiesIn(c, calls') >= CopiesIn(c, calls)
      ]_vars

\* This step is the failure of one read or command c on the Open connection:
\* a timeout, or a reply that does not decode.
ExchangeFails(c) ==
    /\ IsExchange(c)
    /\ conn = "Open"
    /\ \/ BackendTimeout(c)
       \/ \E frame \in ReplyFrames(hw) : ~WellFormed(frame) /\ BackendRead(c, frame)

\* C13: a single failed read or command (DecodeError, Timeout) is not
\* reported: what the page shows of the link is as before the failure.
C13_FailuresNotSurfaced ==
    [][\A c \in BagToSet(calls) : ExchangeFails(c) => statusMessage' = statusMessage
      ]_vars

\* This step is a read of call c that resolves with the state reported.
SuccessfulRead(c) ==
    /\ c.kind = "read_robot_state"
    /\ BackendRead(c, encode(hw))

JointAndOutput(s) == <<s.joint_1, s.digital_output_1>>

\* C15: on the pages whose sliders and checkboxes are bound to jointState and
\* digitalPinState, the joint and output fields of localState are those of
\* the last successful read (at first the defaults) and change only by a
\* successful read; every command issued carries them, with the speed the
\* speed slider holds.
C15_PayloadIsLastRead ==
    [][(page \in {"+page", "index"}) =>
          /\ JointAndOutput(localState) = JointAndOutput(robotState)
          /\ JointAndOutput(localState') # JointAndOutput(localState) =>
                 \E c \in BagToSet(calls) : SuccessfulRead(c)
          /\ \A c \in BagToSet(calls') :
                 ( /\ c.kind = "send_robot_commands"
                   /\ CopiesIn(c, calls') > CopiesIn(c, calls) )
                 => /\ JointAndOutput(c.arg) = JointAndOutput(robotState)
                    /\ c.arg.robotSpeed = Target'.robotSpeed
      ]_vars

\* A joint slider was moved and the command issued for it carries the joint
\* angle of the last read, not the slider's.
C15_Witness ==
    /\ page = "index"
    /\ jointState.joint_1 # localState.joint_1
    /\ \E c \in BagToSet(calls) :
           /\ c.kind = "send_robot_commands"
           /\ c.arg.joint_1 = robotState.joint_1
           /\ c.arg.joint_1 # jointState.joint_1

ReadCall == NewCall("read_robot_state", DefaultState)

\* initialize_serial calls issued and not yet completed.
InitializesInFlight(b) == CopiesIn(InitializeCall, b) + CopiesIn(OpeningCall, b)

\* C17: initializePort with no port selected issues nothing and asks for a
\* port; with a port selected it issues initialize_serial; when that call
\* completes, a read is issued at once if it opened the port, and otherwise
\* none is and the status shows the failure; apart from the poll timer no
\* other step issues a read.
C17_InitializeThenRead ==
    [][(page = "+page") =>
          /\ (ClickInitialize /\ selectedPort = "") =>
                 /\ calls' = calls
                 /\ statusMessage' = Message("Please select a serial port.", "")
          /\ (ClickInitialize /\ selectedPort # "") =>
                 calls' = calls (+) One(InitializeCall)
          /\ InitializesInFlight(calls') < InitializesInFlight(calls) =>
                 \E c \in {InitializeCall, OpeningCall} :
                     IF conn = "Opening" /\ conn' = "Open"
                     THEN /\ calls' = (calls (-) One(c)) (+) One(ReadCall)
                          /\ statusMessage' = Message("Serial port initialized.", "")
                     ELSE /\ calls' = calls (-) One(c)
                          /\ statusMessage'[1] = "Failed to initialize serial port."
          /\ CopiesIn(ReadCall, calls') > CopiesIn(ReadCall, calls) =>
                 \/ Tick
                 \/ /\ InitializesInFlight(calls') < InitializesInFlight(calls)
                    /\ conn' = "Open"
      ]_vars

\* The port has just been initialized and the read that follows it is the
\* only call pending.
C17_Witness ==
    /\ page = "+page"
    /\ conn = "Open"
    /\ statusMessage = Message("Serial port initialized.", "")
    /\ calls = One(ReadCall)

====
